---- MODULE Spec2Model ----
(***************************************************************************)
(* Car Rental API (src/main.py, src/schemas.py).                           *)
(*                                                                         *)
(* The document store holds three collections, car, rental and invoice.    *)
(* Request handlers run in workers; every store read or write of a handler *)
(* is one step, so that handlers of different workers interleave between   *)
(* their store operations.                                                 *)
(*                                                                         *)
(* Units.  Instants are milliseconds since an epoch (the store keeps       *)
(* datetimes to the millisecond).  daily_rate is in thousandths of a       *)
(* currency unit, tax_rate in thousandths, and subtotal, tax_amount and    *)
(* total in hundredths (what round(x, 2) yields).                          *)
(*                                                                         *)
(* Identifiers.  A document's _id is its position in its collection.  An   *)
(* id string of a request is an integer: 0 stands for a string that is no  *)
(* ObjectId, a positive integer for a well-formed one.                     *)
(***************************************************************************)
EXTENDS Integers, Sequences, FiniteSets, TLC

VARIABLES cars, rentals, invoices, now, pc, loc, resp

vars == <<cars, rentals, invoices, now, pc, loc, resp>>

\* ------------------------------------------------------------------ bounds

MaxCars == 2
MaxRentals == 2
MaxInvoices == 2
MaxTicks == 1

\* -------------------------------------------------------------- constants

\* timedelta: one day, in milliseconds; one second, in milliseconds
DayMs == 86400000
SecondMs == 1000

\* Optional[float] = None
NullTax == -1

\* Optional[datetime] = None
NoDate == -1

Procs == {"w1", "w2"}

PlateInputs == {"P1", "P2"}
\* daily_rate payloads; a negative one fails Car's ge=0 validation
RateInputs == {-1000, 50000}
CustomerInputs == {"ann"}
TaxInputs == {NullTax, 300}
\* what the clock advances by between two steps
TickMs == DayMs + 500

CarIdInputs == 0 .. (MaxCars + 1)
RentalIdInputs == 0 .. (MaxRentals + 1)

NoDoc == [id |-> 0]

NoLoc ==
    [customer_name |-> "", tax_rate |-> NullTax, plate_number |-> "",
     daily_rate |-> 0, car |-> NoDoc, rental |-> NoDoc, new_id |-> 0]

\* resp is the response sent by the step just taken, NoResp when it sent none
NoResp == [code |-> 0, detail |-> ""]

\* ------------------------------------------------------------ store access

IsValidObjectIdAnyString(s) == TRUE

\* ObjectId.is_valid
IsValidObjectId(s) == s > 0

\* db[coll].find_one({"_id": ObjectId(id)})
FindById(coll, id) == IF id \in 1 .. Len(coll) THEN coll[id] ELSE NoDoc

\* create_document(coll, doc): the new document gets the next _id
InsertDoc(coll, doc) == Append(coll, [doc EXCEPT !.id = Len(coll) + 1])

\* HTTPException(status_code, detail) / a 200 response
HttpError(code, detail) == [code |-> code, detail |-> detail]
HttpOk == [code |-> 200, detail |-> "ok"]

InFlight(S) == Cardinality({p \in Procs : pc[p] \in S})

Finish(p, r) ==
    /\ pc' = [pc EXCEPT ![p] = "idle"]
    /\ loc' = [loc EXCEPT ![p] = NoLoc]
    /\ resp' = r

Goto(p, label, l) ==
    /\ pc' = [pc EXCEPT ![p] = label]
    /\ loc' = [loc EXCEPT ![p] = l]
    /\ resp' = NoResp

\* ------------------------------------------------------------------ Init

Init ==
    /\ cars = <<>>
    /\ rentals = <<>>
    /\ invoices = <<>>
    /\ now = 0
    /\ pc = [p \in Procs |-> "idle"]
    /\ loc = [p \in Procs |-> NoLoc]
    /\ resp = NoResp

\* the clock advances
Tick ==
    /\ now + TickMs <= MaxTicks * TickMs
    /\ now' = now + TickMs
    /\ resp' = NoResp
    /\ UNCHANGED <<cars, rentals, invoices, pc, loc>>

\* ---------------------------------------------------------------- add_car

\* CreateCarRequest: the fields the handlers read (make, model and year are
\* stored and returned, and read by no handler)
CreateCarRequest(plate, rate) == [plate_number |-> plate, daily_rate |-> rate]

ExistingCarSameFields(payload) ==
    \E i \in 1 .. Len(cars) :
        /\ cars[i].plate_number = payload.plate_number
        /\ cars[i].daily_rate = payload.daily_rate

\* db["car"].find_one({"plate_number": payload.plate_number})
ExistingCar(payload) ==
    \E i \in 1 .. Len(cars) : cars[i].plate_number = payload.plate_number

\* CarSchema(...): daily_rate has ge=0
CarSchemaValid(payload) == payload.daily_rate >= 0

AddCarFind(p, payload) ==
    /\ pc[p] = "idle"
    /\ UNCHANGED <<cars, rentals, invoices, now>>
    /\ IF ExistingCar(payload)
       THEN Finish(p, HttpError(400, "Plate number already exists"))
       ELSE IF ~CarSchemaValid(payload)
       THEN Finish(p, HttpError(500, "ValidationError"))
       ELSE /\ Len(cars) + InFlight({"add_insert"}) < MaxCars
            /\ Goto(p, "add_insert", [NoLoc EXCEPT !.plate_number = payload.plate_number,
                                                   !.daily_rate = payload.daily_rate])

AddCarInsert(p) ==
    /\ pc[p] = "add_insert"
    /\ cars' = InsertDoc(cars, [id |-> 0, plate_number |-> loc[p].plate_number,
                                daily_rate |-> loc[p].daily_rate, available |-> TRUE])
    /\ Goto(p, "add_fetch", [loc[p] EXCEPT !.new_id = Len(cars) + 1])
    /\ UNCHANGED <<rentals, invoices, now>>

AddCarFetch(p) ==
    /\ pc[p] = "add_fetch"
    /\ Finish(p, HttpOk)
    /\ UNCHANGED <<cars, rentals, invoices, now>>

\* ----------------------------------------------------------- start_rental

CarIsAvailableUnchecked(car) == TRUE

\* car.get("available", True)
CarIsAvailable(car) == car.available

StartFindCar(p, car_id, customer) ==
    /\ pc[p] = "idle"
    /\ UNCHANGED <<cars, rentals, invoices, now>>
    /\ IF ~IsValidObjectId(car_id)
       THEN Finish(p, HttpError(400, "Invalid car_id"))
       ELSE LET car == FindById(cars, car_id) IN
            IF car.id = 0
            THEN Finish(p, HttpError(404, "Car not found"))
            ELSE IF ~CarIsAvailable(car)
            THEN Finish(p, HttpError(400, "Car is not available"))
            ELSE /\ Len(rentals) + InFlight({"s_insert"}) < MaxRentals
                 /\ Goto(p, "s_insert",
                         [NoLoc EXCEPT !.customer_name = customer, !.car = car])

StartInsertIfStillAvailable(p) ==
    /\ pc[p] = "s_insert"
    /\ UNCHANGED <<cars, invoices, now>>
    /\ IF cars[loc[p].car.id].available
       THEN /\ rentals' = InsertDoc(rentals, [id |-> 0, car_id |-> loc[p].car.id,
                                              customer_name |-> loc[p].customer_name,
                                              start_date |-> now, end_date |-> NoDate,
                                              status |-> "active"])
            /\ Goto(p, "s_update", [loc[p] EXCEPT !.new_id = Len(rentals) + 1])
       ELSE /\ UNCHANGED rentals
            /\ Finish(p, HttpError(400, "Car is not available"))

StartInsertAtomic(p) ==
    /\ pc[p] = "s_insert"
    /\ rentals' = InsertDoc(rentals, [id |-> 0, car_id |-> loc[p].car.id,
                                      customer_name |-> loc[p].customer_name,
                                      start_date |-> now, end_date |-> NoDate,
                                      status |-> "active"])
    /\ cars' = [cars EXCEPT ![loc[p].car.id].available = FALSE]
    /\ Goto(p, "s_update", [loc[p] EXCEPT !.new_id = Len(rentals) + 1])
    /\ UNCHANGED <<invoices, now>>

StartInsert(p) ==
    /\ pc[p] = "s_insert"
    /\ rentals' = InsertDoc(rentals, [id |-> 0, car_id |-> loc[p].car.id,
                                      customer_name |-> loc[p].customer_name,
                                      start_date |-> now, end_date |-> NoDate,
                                      status |-> "active"])
    /\ Goto(p, "s_update", [loc[p] EXCEPT !.new_id = Len(rentals) + 1])
    /\ UNCHANGED <<cars, invoices, now>>

StartUpdateCar(p) ==
    /\ pc[p] = "s_update"
    /\ cars' = [cars EXCEPT ![loc[p].car.id].available = FALSE]
    /\ Goto(p, "s_fetch", loc[p])
    /\ UNCHANGED <<rentals, invoices, now>>

StartFetch(p) ==
    /\ pc[p] = "s_fetch"
    /\ Finish(p, HttpOk)
    /\ UNCHANGED <<cars, rentals, invoices, now>>

\* -------------------------------------------------------- compute_invoice

Max(a, b) == IF a >= b THEN a ELSE b

\* timedelta.days and timedelta.seconds of a duration given in milliseconds:
\* timedelta keeps days, 0 <= seconds < 86400 and the sub-second rest apart
TimedeltaDays(ms) == ms \div DayMs
TimedeltaSeconds(ms) == (ms % DayMs) \div SecondMs

\* max(1, (duration.days + (1 if duration.seconds > 0 else 0)))
BilledDays(start, end) ==
    LET duration == end - start IN
    Max(1, TimedeltaDays(duration) + (IF TimedeltaSeconds(duration) > 0 THEN 1 ELSE 0))

\* round(x, 2), x given as n / (100 * scale): the nearest hundredth, a tie to
\* the even one
Round2(n, scale) ==
    LET q == n \div scale
        r == n % scale
    IN  IF 2 * r < scale THEN q
        ELSE IF 2 * r > scale THEN q + 1
        ELSE IF q % 2 = 0 THEN q ELSE q + 1

\* tax_rate or 0.0
TaxOrZero(tax_rate) == IF tax_rate = NullTax \/ tax_rate = 0 THEN 0 ELSE tax_rate

InvoiceAmountsRoundedOnce(days, daily_rate, tax_rate) ==
    LET subtotal == Round2(days * daily_rate, 10)
        tax_amount == Round2(days * daily_rate * TaxOrZero(tax_rate), 10000)
        total == Round2(days * daily_rate * (1000 + TaxOrZero(tax_rate)), 10000)
    IN  [subtotal |-> subtotal, tax_amount |-> tax_amount, total |-> total]

\* subtotal, tax_amount and total of compute_invoice
InvoiceAmounts(days, daily_rate, tax_rate) ==
    LET subtotal == Round2(days * daily_rate, 10)
        tax_amount == Round2(subtotal * TaxOrZero(tax_rate), 1000)
        total == Round2(subtotal + tax_amount, 1)
    IN  [subtotal |-> subtotal, tax_amount |-> tax_amount, total |-> total]

\* rental.get("end_date") or datetime.now(timezone.utc)
EffectiveEnd(rental, clock) == IF rental.end_date # NoDate THEN rental.end_date ELSE clock

compute_invoice_anonymous(car, rental, tax_rate, clock) ==
    LET start == rental.start_date
        end == EffectiveEnd(rental, clock)
        days == BilledDays(start, end)
        daily_rate == car.daily_rate
        amounts == InvoiceAmounts(days, daily_rate, tax_rate)
    IN  [id |-> 0, rental_id |-> rental.id, car_id |-> car.id,
         customer_name |-> "", start_date |-> start,
         end_date |-> end, days |-> days, daily_rate |-> daily_rate,
         subtotal |-> amounts.subtotal, tax_rate |-> TaxOrZero(tax_rate),
         tax_amount |-> amounts.tax_amount, total |-> amounts.total]

compute_invoice(car, rental, tax_rate, clock) ==
    LET start == rental.start_date
        end == EffectiveEnd(rental, clock)
        days == BilledDays(start, end)
        daily_rate == car.daily_rate
        amounts == InvoiceAmounts(days, daily_rate, tax_rate)
    IN  [id |-> 0, rental_id |-> rental.id, car_id |-> car.id,
         customer_name |-> rental.customer_name, start_date |-> start,
         end_date |-> end, days |-> days, daily_rate |-> daily_rate,
         subtotal |-> amounts.subtotal, tax_rate |-> TaxOrZero(tax_rate),
         tax_amount |-> amounts.tax_amount, total |-> amounts.total]

\* ---------------------------------------------------------- return_rental

AlreadyReturnedUnchecked(rental) == FALSE

AlreadyReturnedWithInvoice(rental) ==
    /\ rental.status = "returned"
    /\ \E i \in 1 .. Len(invoices) : invoices[i].rental_id = rental.id

\* rental.get("status") == "returned"
AlreadyReturned(rental) == rental.status = "returned"

UpsertInvoiceByCar(coll, doc) ==
    IF \E i \in 1 .. Len(coll) : coll[i].car_id = doc.car_id
    THEN LET i == CHOOSE k \in 1 .. Len(coll) : coll[k].car_id = doc.car_id
         IN  [coll EXCEPT ![i] = [doc EXCEPT !.id = i]]
    ELSE InsertDoc(coll, doc)

\* create_document("invoice", invoice_data)
InsertInvoice(coll, doc) == InsertDoc(coll, doc)

ReturnFindRental(p, rental_id, tax_rate) ==
    /\ pc[p] = "idle"
    /\ UNCHANGED <<cars, rentals, invoices, now>>
    /\ IF ~IsValidObjectId(rental_id)
       THEN Finish(p, HttpError(400, "Invalid rental_id"))
       ELSE LET rental == FindById(rentals, rental_id) IN
            IF rental.id = 0
            THEN Finish(p, HttpError(404, "Rental not found"))
            ELSE IF AlreadyReturned(rental)
            THEN Finish(p, HttpError(400, "Rental already returned"))
            ELSE /\ Len(invoices)
                      + InFlight({"r_car", "r_update", "r_car_update", "r_refetch", "r_invoice"})
                      < MaxInvoices
                 /\ Goto(p, "r_car",
                         [NoLoc EXCEPT !.tax_rate = tax_rate, !.rental = rental])

ReturnFindCar(p) ==
    /\ pc[p] = "r_car"
    /\ UNCHANGED <<cars, rentals, invoices, now>>
    /\ LET car == FindById(cars, loc[p].rental.car_id) IN
       IF car.id = 0
       THEN Finish(p, HttpError(404, "Car for rental not found"))
       ELSE Goto(p, "r_update", [loc[p] EXCEPT !.car = car])

ReturnUpdateRental(p) ==
    /\ pc[p] = "r_update"
    /\ rentals' = [rentals EXCEPT ![loc[p].rental.id].end_date = now,
                                  ![loc[p].rental.id].status = "returned"]
    /\ Goto(p, "r_car_update", loc[p])
    /\ UNCHANGED <<cars, invoices, now>>

ReturnUpdateCarSkipped(p) ==
    /\ pc[p] = "r_car_update"
    /\ Goto(p, "r_refetch", loc[p])
    /\ UNCHANGED <<cars, rentals, invoices, now>>

ReturnUpdateCar(p) ==
    /\ pc[p] = "r_car_update"
    /\ cars' = [cars EXCEPT ![loc[p].car.id].available = TRUE]
    /\ Goto(p, "r_refetch", loc[p])
    /\ UNCHANGED <<rentals, invoices, now>>

ReturnRefetchStale(p) ==
    /\ pc[p] = "r_refetch"
    /\ Goto(p, "r_invoice", loc[p])
    /\ UNCHANGED <<cars, rentals, invoices, now>>

ReturnRefetch(p) ==
    /\ pc[p] = "r_refetch"
    /\ Goto(p, "r_invoice", [loc[p] EXCEPT !.rental = FindById(rentals, loc[p].rental.id)])
    /\ UNCHANGED <<cars, rentals, invoices, now>>

ReturnInvoice(p) ==
    /\ pc[p] = "r_invoice"
    /\ invoices' = InsertInvoice(invoices,
                                 compute_invoice(loc[p].car, loc[p].rental,
                                                 TaxOrZero(loc[p].tax_rate), now))
    /\ Goto(p, "r_fetch", [loc[p] EXCEPT !.new_id = Len(invoices) + 1])
    /\ UNCHANGED <<cars, rentals, now>>

ReturnFetch(p) ==
    /\ pc[p] = "r_fetch"
    /\ Finish(p, HttpOk)
    /\ UNCHANGED <<cars, rentals, invoices, now>>

\* ------------------------------------------------------------ next states

Next ==
    \/ Tick
    \/ \E p \in Procs, plate \in PlateInputs, rate \in RateInputs :
          AddCarFind(p, CreateCarRequest(plate, rate))
    \/ \E p \in Procs : AddCarInsert(p)
    \/ \E p \in Procs : AddCarFetch(p)
    \/ \E p \in Procs, c \in CarIdInputs, n \in CustomerInputs : StartFindCar(p, c, n)
    \/ \E p \in Procs : StartInsert(p)
    \/ \E p \in Procs : StartUpdateCar(p)
    \/ \E p \in Procs : StartFetch(p)
    \/ \E p \in Procs, r \in RentalIdInputs, t \in TaxInputs : ReturnFindRental(p, r, t)
    \/ \E p \in Procs : ReturnFindCar(p)
    \/ \E p \in Procs : ReturnUpdateRental(p)
    \/ \E p \in Procs : ReturnUpdateCar(p)
    \/ \E p \in Procs : ReturnRefetch(p)
    \/ \E p \in Procs : ReturnInvoice(p)
    \/ \E p \in Procs : ReturnFetch(p)

Spec == Init /\ [][Next]_vars

\* ---------------------------------------------- one request at a time

\* no other worker has a request in progress
Alone(p) == \A q \in Procs \ {p} : pc[q] = "idle"

NextSeq ==
    \/ Tick
    \/ \E p \in Procs, plate \in PlateInputs, rate \in RateInputs :
          Alone(p) /\ AddCarFind(p, CreateCarRequest(plate, rate))
    \/ \E p \in Procs : Alone(p) /\ AddCarInsert(p)
    \/ \E p \in Procs : Alone(p) /\ AddCarFetch(p)
    \/ \E p \in Procs, c \in CarIdInputs, n \in CustomerInputs :
          Alone(p) /\ StartFindCar(p, c, n)
    \/ \E p \in Procs : Alone(p) /\ StartInsert(p)
    \/ \E p \in Procs : Alone(p) /\ StartUpdateCar(p)
    \/ \E p \in Procs : Alone(p) /\ StartFetch(p)
    \/ \E p \in Procs, r \in RentalIdInputs, t \in TaxInputs :
          Alone(p) /\ ReturnFindRental(p, r, t)
    \/ \E p \in Procs : Alone(p) /\ ReturnFindCar(p)
    \/ \E p \in Procs : Alone(p) /\ ReturnUpdateRental(p)
    \/ \E p \in Procs : Alone(p) /\ ReturnUpdateCar(p)
    \/ \E p \in Procs : Alone(p) /\ ReturnRefetch(p)
    \/ \E p \in Procs : Alone(p) /\ ReturnInvoice(p)
    \/ \E p \in Procs : Alone(p) /\ ReturnFetch(p)

SpecSeq == Init /\ [][NextSeq]_vars

\* ------------------------------------ compute_invoice on drawn inputs

InvoiceEnds ==
    {0, 500, SecondMs, DayMs, DayMs + 500, DayMs + SecondMs, 2 * DayMs, 2 * DayMs + 500}
InvoiceRates == {0, 16, 33335, 50000, 100000}
InvoiceTaxes == {NullTax, 0, 100, 300}

\* a return_rental about to compute its invoice: the rental started at 0 is
\* returned at end, the car is available again, the rental has been re-read
InitInvoice ==
    \E end \in InvoiceEnds, rate \in InvoiceRates, tax \in InvoiceTaxes, w \in Procs :
        LET car == [id |-> 1, plate_number |-> "P1", daily_rate |-> rate, available |-> FALSE]
            rental == [id |-> 1, car_id |-> 1, customer_name |-> "ann", start_date |-> 0,
                       end_date |-> end, status |-> "returned"]
        IN  /\ cars = <<[car EXCEPT !.available = TRUE]>>
            /\ rentals = <<rental>>
            /\ invoices = <<>>
            /\ now = end
            /\ pc = [p \in Procs |-> IF p = w THEN "r_invoice" ELSE "idle"]
            /\ loc = [p \in Procs |->
                        IF p = w
                        THEN [NoLoc EXCEPT !.tax_rate = tax, !.rental = rental, !.car = car]
                        ELSE NoLoc]
            /\ resp = NoResp

NextInvoice ==
    \/ \E p \in Procs : ReturnInvoice(p)
    \/ \E p \in Procs : ReturnFetch(p)

SpecInvoice == InitInvoice /\ [][NextInvoice]_vars

\* ================================================================ claims

RentalIds == 1 .. Len(rentals)
CarIds == 1 .. Len(cars)
InvoiceIds == 1 .. Len(invoices)

ActiveRentalsOf(c) ==
    {r \in RentalIds : rentals[r].car_id = c /\ rentals[r].status = "active"}

\* C1: with requests handled one at a time, no Car is referenced by more than
\* one Rental with status=active.
C1_NoCarDoublyRented == \A c \in CarIds : Cardinality(ActiveRentalsOf(c)) <= 1

\* a car rented a second time after its first rental was returned
C1_Witness ==
    \E c \in CarIds :
        /\ Cardinality(ActiveRentalsOf(c)) = 1
        /\ \E r \in RentalIds : rentals[r].car_id = c /\ rentals[r].status = "returned"

\* C2: under any interleaving of return_rental requests, at most one Invoice
\* exists for any rental_id.
C2_OneInvoicePerRental ==
    \A i, j \in InvoiceIds : invoices[i].rental_id = invoices[j].rental_id => i = j

\* the start_rental that created rental r has updated the car
StartDone(r) == ~\E p \in Procs : pc[p] = "s_update" /\ loc[p].new_id = r

\* C3: once start_rental has created rental r on car c and marked c, c.available
\* is false in every state until r is returned, under any interleaving.
C3_UnavailableUntilReturned ==
    \A r \in RentalIds :
        (rentals[r].status = "active" /\ StartDone(r)) => ~cars[rentals[r].car_id].available

\* C4: return_rental on a rental whose status is already returned answers 400
\* "Rental already returned", ends the request there and changes none of the
\* three collections.
C4_ReturnOfReturnedRejected ==
    [][\A p \in Procs, r \in RentalIdInputs, t \in TaxInputs :
          (/\ pc[p] = "idle"
           /\ r \in RentalIds
           /\ rentals[r].status = "returned"
           /\ ReturnFindRental(p, r, t))
          => (/\ resp' = [code |-> 400, detail |-> "Rental already returned"]
              /\ pc'[p] = "idle"
              /\ UNCHANGED <<cars, rentals, invoices>>)]_vars

\* a second return of a rental that has its invoice was just rejected
C4_Witness ==
    /\ resp = [code |-> 400, detail |-> "Rental already returned"]
    /\ \E r \in RentalIds : rentals[r].status = "returned"
    /\ Len(invoices) >= 1

\* C5: start_rental answers 400 for a malformed car_id, 404 for a well-formed
\* car_id matching no Car and 400 for a Car that is not available; in each
\* case the request ends there, no Rental is created and no Car is modified.
C5_StartRejected ==
    [][\A p \in Procs, c \in CarIdInputs, n \in CustomerInputs :
          /\ (pc[p] = "idle" /\ c = 0 /\ StartFindCar(p, c, n)) =>
                /\ resp' = [code |-> 400, detail |-> "Invalid car_id"]
                /\ pc'[p] = "idle" /\ UNCHANGED <<cars, rentals>>
          /\ (pc[p] = "idle" /\ c > Len(cars) /\ StartFindCar(p, c, n)) =>
                /\ resp' = [code |-> 404, detail |-> "Car not found"]
                /\ pc'[p] = "idle" /\ UNCHANGED <<cars, rentals>>
          /\ (pc[p] = "idle" /\ c \in CarIds /\ ~cars[c].available /\ StartFindCar(p, c, n)) =>
                /\ resp' = [code |-> 400, detail |-> "Car is not available"]
                /\ pc'[p] = "idle" /\ UNCHANGED <<cars, rentals>>]_vars

\* a start_rental on a rented car was just rejected
C5_Witness ==
    /\ resp = [code |-> 400, detail |-> "Car is not available"]
    /\ \E c \in CarIds : ~cars[c].available /\ ActiveRentalsOf(c) # {}

\* the number of whole or partial days from start to end
DaysRoundedUp(start, end) == (end - start + DayMs - 1) \div DayMs

\* C6: every Invoice bills max(1, the days from start to end with any partial
\* day rounded up to a full day).
C6_PartialDayRoundsUp ==
    \A i \in InvoiceIds :
        invoices[i].days = Max(1, DaysRoundedUp(invoices[i].start_date, invoices[i].end_date))

\* C7: add_car with the plate_number of an existing Car answers 400, whatever
\* the other fields are, and inserts no Car.
C7_DuplicatePlateRejected ==
    [][\A p \in Procs, plate \in PlateInputs, rate \in RateInputs :
          (/\ pc[p] = "idle"
           /\ \E c \in CarIds : cars[c].plate_number = plate
           /\ AddCarFind(p, CreateCarRequest(plate, rate)))
          => (/\ resp' = [code |-> 400, detail |-> "Plate number already exists"]
              /\ pc'[p] = "idle"
              /\ UNCHANGED cars)]_vars

\* an add_car was just rejected for its plate while a car holds that plate
C7_Witness ==
    /\ resp = [code |-> 400, detail |-> "Plate number already exists"]
    /\ Len(cars) >= 1

\* C8: once a Rental's status is returned, no step writes it again: its status
\* and end_date never change.
C8_ReturnedIsFinal ==
    [][\A r \in RentalIds : rentals[r].status = "returned" => rentals'[r] = rentals[r]]_vars

\* C9: every step leaves every existing Invoice unchanged and deletes none.
C9_InvoicesImmutable ==
    [][/\ Len(invoices') >= Len(invoices)
       /\ \A i \in InvoiceIds : invoices'[i] = invoices[i]]_vars

\* a second invoice was inserted beside a first one, for the same car
C9_Witness == Len(invoices) = 2 /\ invoices[1].car_id = invoices[2].car_id

\* r is a hundredth nearest to n / (100 * scale)
NearestHundredth(r, n, scale) ==
    /\ 2 * (r * scale - n) <= scale
    /\ 2 * (n - r * scale) <= scale

\* C10: for every Invoice, subtotal is days * daily_rate rounded to hundredths,
\* tax_amount is subtotal * tax_rate rounded to hundredths and total is their
\* sum in hundredths; the tax_rate of an invoice is the request's, 0 when the
\* request gave none.
C10_StagewiseRounding ==
    /\ [](\A i \in InvoiceIds :
            /\ NearestHundredth(invoices[i].subtotal,
                                invoices[i].days * invoices[i].daily_rate, 10)
            /\ NearestHundredth(invoices[i].tax_amount,
                                invoices[i].subtotal * invoices[i].tax_rate, 1000)
            /\ invoices[i].total = invoices[i].subtotal + invoices[i].tax_amount)
    /\ [][\A p \in Procs :
            ReturnInvoice(p) =>
                invoices'[Len(invoices')].tax_rate =
                    (IF loc[p].tax_rate = NullTax THEN 0 ELSE loc[p].tax_rate)]_vars

\* an invoice whose subtotal and whose tax were both rounded
C10_Witness ==
    \E i \in InvoiceIds :
        /\ (invoices[i].days * invoices[i].daily_rate) % 10 # 0
        /\ (invoices[i].subtotal * invoices[i].tax_rate) % 1000 # 0
        /\ invoices[i].tax_amount > 0

\* ---------------------------------------------------------- read endpoints

\* a 200 response carrying a JSON body
HttpBody(body) == [code |-> 200, detail |-> "ok", body |-> body]

\* serialize_value: an ObjectId becomes its string (the id string of that
\* number), a datetime its UTC ISO-8601 text, anything else is kept
serialize_value(k, v) ==
    IF k \in {"start_date", "end_date"} /\ v # NoDate THEN [iso |-> v] ELSE v

serialize_doc(doc) == [k \in DOMAIN doc |-> serialize_value(k, doc[k])]

SerializeAll(docs) == [i \in 1 .. Len(docs) |-> serialize_doc(docs[i])]

\* get_documents(coll): every document of the collection, in storage order
get_documents(coll) == coll

list_cars == SerializeAll(get_documents(cars))

\* list(db["rental"].find({"status": "active"}))
IsActive(rental) == rental.status = "active"
list_active_rentals == SerializeAll(SelectSeq(rentals, IsActive))

list_invoices == SerializeAll(get_documents(invoices))

get_invoice_by_rental(invoice_id) ==
    IF ~IsValidObjectId(invoice_id)
    THEN HttpError(400, "Invalid invoice_id")
    ELSE IF \E i \in 1 .. Len(invoices) : invoices[i].rental_id = invoice_id
    THEN HttpBody(serialize_doc(
             invoices[CHOOSE i \in 1 .. Len(invoices) : invoices[i].rental_id = invoice_id]))
    ELSE HttpError(404, "Invoice not found")

get_invoice(invoice_id) ==
    IF ~IsValidObjectId(invoice_id)
    THEN HttpError(400, "Invalid invoice_id")
    ELSE LET inv == FindById(invoices, invoice_id) IN
         IF inv.id = 0
         THEN HttpError(404, "Invoice not found")
         ELSE HttpBody(serialize_doc(inv))

\* the collections that have a list route, and the response of GET on the
\* path of one record: only /api/invoices/{invoice_id} is a route of the app,
\* any other path is answered 404 by the router
ListedCollections == {"car", "rental", "invoice"}

ListOf(coll) ==
    IF coll = "car" THEN list_cars
    ELSE IF coll = "rental" THEN list_active_rentals
    ELSE list_invoices

GetById(coll, id) ==
    IF coll = "invoice" THEN get_invoice(id) ELSE HttpError(404, "Not Found")

Respond(p, r) ==
    /\ pc[p] = "idle"
    /\ resp' = r
    /\ UNCHANGED <<cars, rentals, invoices, now, pc, loc>>

ListCars(p) == Respond(p, HttpBody(list_cars))
ListActiveRentals(p) == Respond(p, HttpBody(list_active_rentals))
ListInvoices(p) == Respond(p, HttpBody(list_invoices))
GetRecord(p, coll, id) == Respond(p, GetById(coll, id))

InvoiceIdInputs == 0 .. (MaxInvoices + 1)

NextRead ==
    \/ NextSeq
    \/ \E p \in Procs : Alone(p) /\ ListCars(p)
    \/ \E p \in Procs : Alone(p) /\ ListActiveRentals(p)
    \/ \E p \in Procs : Alone(p) /\ ListInvoices(p)
    \/ \E p \in Procs, coll \in ListedCollections, id \in InvoiceIdInputs :
          Alone(p) /\ GetRecord(p, coll, id)

SpecRead == Init /\ [][NextRead]_vars

\* C11 (as stated): every record returned by list_cars, list_active_rentals
\* or list_invoices is returned, with identical field values, by GET on that
\* record's id.
C11_AllListsRoundTrip ==
    \A coll \in ListedCollections :
        \A i \in 1 .. Len(ListOf(coll)) :
            GetById(coll, ListOf(coll)[i].id) = HttpBody(ListOf(coll)[i])

\* C11 (amended): every record returned by list_invoices is returned, with
\* identical field values, by get_invoice on that record's id.
C11_InvoiceRoundTrip ==
    \A i \in 1 .. Len(list_invoices) :
        get_invoice(list_invoices[i].id) = HttpBody(list_invoices[i])

\* list_invoices has just answered with two invoices
C11_Witness == Len(invoices) = 2 /\ resp = HttpBody(list_invoices)

\* C12: a start_rental that has read available=true is never rejected
\* afterwards, whatever the other requests have written since: its insert adds
\* an active Rental on the Car it read and its response is 200. So two
\* start_rental requests that both read available=true for one Car both
\* succeed, and the Car is referenced by two Rentals with status=active.
C12_BothStartsSucceed ==
    [][\A p \in Procs :
          /\ pc[p] = "s_insert" =>
                \/ pc'[p] = "s_insert"
                \/ /\ pc'[p] = "s_update"
                   /\ Len(rentals') = Len(rentals) + 1
                   /\ rentals'[Len(rentals')].car_id = loc[p].car.id
                   /\ rentals'[Len(rentals')].status = "active"
          /\ pc[p] = "s_update" => pc'[p] \in {"s_update", "s_fetch"}
          /\ pc[p] = "s_fetch" => (pc'[p] = "s_fetch" \/ resp' = HttpOk)]_vars

\* both workers read available=true for one car and both have marked it: the
\* car is referenced by two active rentals
C12_Witness ==
    \E c \in CarIds :
        /\ \A p \in Procs : pc[p] = "s_fetch" /\ loc[p].car.id = c /\ loc[p].car.available
        /\ Cardinality(ActiveRentalsOf(c)) = 2

\* --------------------------------------------- requests that stop midway

\* what the client of a request that stopped on a store error is answered
Stopped == HttpError(500, "Internal Server Error")

StartLabels == {"s_insert", "s_update", "s_fetch"}
ReturnLabels == {"r_car", "r_update", "r_car_update", "r_refetch", "r_invoice", "r_fetch"}

\* a start_rental stops before its next store operation: what it has written
\* stays, what it has not written is never written
StartStop(p) ==
    /\ pc[p] \in StartLabels
    /\ Finish(p, Stopped)
    /\ UNCHANGED <<cars, rentals, invoices, now>>

\* a return_rental stops before its next store operation
ReturnStop(p) ==
    /\ pc[p] \in ReturnLabels
    /\ Finish(p, Stopped)
    /\ UNCHANGED <<cars, rentals, invoices, now>>

\* the steps of the requests, one request at a time
NextRequests ==
    \/ \E p \in Procs, plate \in PlateInputs, rate \in RateInputs :
          Alone(p) /\ AddCarFind(p, CreateCarRequest(plate, rate))
    \/ \E p \in Procs : Alone(p) /\ AddCarInsert(p)
    \/ \E p \in Procs : Alone(p) /\ AddCarFetch(p)
    \/ \E p \in Procs, c \in CarIdInputs, n \in CustomerInputs :
          Alone(p) /\ StartFindCar(p, c, n)
    \/ \E p \in Procs : Alone(p) /\ StartInsert(p)
    \/ \E p \in Procs : Alone(p) /\ StartUpdateCar(p)
    \/ \E p \in Procs : Alone(p) /\ StartFetch(p)
    \/ \E p \in Procs, r \in RentalIdInputs, t \in TaxInputs :
          Alone(p) /\ ReturnFindRental(p, r, t)
    \/ \E p \in Procs : Alone(p) /\ ReturnFindCar(p)
    \/ \E p \in Procs : Alone(p) /\ ReturnUpdateRental(p)
    \/ \E p \in Procs : Alone(p) /\ ReturnUpdateCar(p)
    \/ \E p \in Procs : Alone(p) /\ ReturnRefetch(p)
    \/ \E p \in Procs : Alone(p) /\ ReturnInvoice(p)
    \/ \E p \in Procs : Alone(p) /\ ReturnFetch(p)

\* one request at a time, each either running to completion or stopping; the
\* requests are handled within one reading of the clock
NextStop ==
    \/ NextRequests
    \/ \E p \in Procs : Alone(p) /\ StartStop(p)
    \/ \E p \in Procs : Alone(p) /\ ReturnStop(p)

SpecStop == Init /\ [][NextStop]_vars

\* rental r is active, its car is available and no start_rental is about to
\* mark the car for it
Orphan(r) ==
    /\ rentals[r].status = "active"
    /\ cars[rentals[r].car_id].available
    /\ StartDone(r)

\* C13: start_rental inserts the Rental in one step and updates the Car in a
\* later one. A start_rental that stops between the two leaves an active
\* Rental whose Car has available=true; from then on the Rental stays so
\* until a client returns it or rents the Car again, and a start_rental on
\* that Car is let through.
C13_StopBetweenWritesNotRepaired ==
    [][/\ \A p \in Procs :
             /\ (pc[p] = "s_insert" /\ pc'[p] = "s_update") =>
                    (cars' = cars /\ Len(rentals') = Len(rentals) + 1)
             /\ (pc[p] = "s_update" /\ pc'[p] = "s_fetch") =>
                    (rentals' = rentals /\ ~cars'[loc[p].car.id].available)
             /\ (pc[p] = "s_update" /\ StartStop(p)) =>
                    /\ rentals'[loc[p].new_id].status = "active"
                    /\ rentals'[loc[p].new_id].car_id = loc[p].car.id
                    /\ cars'[loc[p].car.id].available
                    /\ \A q \in Procs : pc'[q] = "idle"
       /\ \A r \in RentalIds :
             Orphan(r) =>
                \/ Orphan(r)'
                \/ \E p \in Procs : pc[p] = "r_update" /\ loc[p].rental.id = r
                \/ \E p \in Procs : pc[p] = "s_update" /\ loc[p].car.id = rentals[r].car_id
       /\ \A p \in Procs, c \in CarIdInputs, n \in CustomerInputs :
             (/\ pc[p] = "idle"
              /\ c \in CarIds
              /\ \E r \in RentalIds : Orphan(r) /\ rentals[r].car_id = c
              /\ StartFindCar(p, c, n))
             => pc'[p] = "s_insert"]_vars

\* a start_rental stopped between its writes and the next start_rental on
\* the same car has just succeeded: two active rentals on the car
C13_Witness ==
    /\ resp = HttpOk
    /\ \A p \in Procs : pc[p] = "idle"
    /\ \E c \in CarIds : ~cars[c].available /\ Cardinality(ActiveRentalsOf(c)) = 2

\* C14: under any interleaving, the Rental that return_rental hands to
\* compute_invoice has its end_date set, so the end_date-or-now fallback is
\* never taken, and the Invoice a return_rental has inserted carries the
\* end_date of the Rental as that request re-read it.
C14_InvoiceUsesStoredEndDate ==
    \A p \in Procs :
        /\ pc[p] = "r_invoice" =>
              /\ loc[p].rental.end_date # NoDate
              /\ EffectiveEnd(loc[p].rental, now) = loc[p].rental.end_date
        /\ pc[p] = "r_fetch" =>
              /\ loc[p].rental.end_date # NoDate
              /\ invoices[loc[p].new_id].end_date = loc[p].rental.end_date

\* a return_rental has inserted its invoice after the clock moved past the
\* end_date it stored: the fallback would have given another end_date
C14_Witness ==
    \E p \in Procs :
        /\ pc[p] = "r_fetch"
        /\ now > loc[p].rental.end_date
        /\ invoices[loc[p].new_id].end_date = loc[p].rental.end_date

\* C15: under any interleaving of add_car requests, no two Cars have the same
\* plate_number.
C15_PlateNumbersUnique ==
    \A i, j \in CarIds : cars[i].plate_number = cars[j].plate_number => i = j

\* every request has run to completion
Quiescent == \A p \in Procs : pc[p] = "idle"

\* C16: with requests handled one at a time, each run to completion, a Car
\* has available=false exactly when one active Rental references it and
\* available=true exactly when none does.
C16_AvailableIffNotRented ==
    Quiescent =>
        \A c \in CarIds :
            /\ ~cars[c].available <=> Cardinality(ActiveRentalsOf(c)) = 1
            /\ cars[c].available <=> Cardinality(ActiveRentalsOf(c)) = 0

\* between requests: one car is rented, another has been rented and returned
C16_Witness ==
    /\ Quiescent
    /\ \E c \in CarIds : ~cars[c].available /\ Cardinality(ActiveRentalsOf(c)) = 1
    /\ \E c \in CarIds :
          /\ cars[c].available
          /\ \E r \in RentalIds : rentals[r].car_id = c /\ rentals[r].status = "returned"

InvoicesOf(r) == {i \in InvoiceIds : invoices[i].rental_id = r}

\* C17: with requests handled one at a time, each run to completion, every
\* returned Rental has exactly one Invoice, whose rental_id, car_id and
\* customer_name are the Rental's; an active Rental has no Invoice; every
\* Invoice references an existing returned Rental.
C17_InvoicesMatchReturnedRentals ==
    Quiescent =>
        /\ \A r \in RentalIds :
              /\ rentals[r].status = "returned" =>
                    /\ Cardinality(InvoicesOf(r)) = 1
                    /\ \A i \in InvoicesOf(r) :
                          /\ invoices[i].car_id = rentals[r].car_id
                          /\ invoices[i].customer_name = rentals[r].customer_name
              /\ rentals[r].status = "active" => InvoicesOf(r) = {}
        /\ \A i \in InvoiceIds :
              /\ invoices[i].rental_id \in RentalIds
              /\ rentals[invoices[i].rental_id].status = "returned"

\* between requests: a returned rental with its invoice next to an active
\* rental on another car
C17_Witness ==
    /\ Quiescent
    /\ \E r \in RentalIds : rentals[r].status = "returned" /\ Cardinality(InvoicesOf(r)) = 1
    /\ \E r \in RentalIds :
          /\ rentals[r].status = "active"
          /\ \E q \in RentalIds : rentals[q].status = "returned" /\ rentals[q].car_id # rentals[r].car_id

\* a return_rental in progress holds rental r / a request in progress holds
\* car c
RentalHeld(r) == \E p \in Procs : pc[p] \in ReturnLabels /\ loc[p].rental.id = r
CarHeld(c) ==
    \E p \in Procs :
        \/ pc[p] \in ReturnLabels /\ loc[p].rental.car_id = c
        \/ pc[p] \in StartLabels /\ loc[p].car.id = c

\* rental r was marked returned by a return_rental that stopped before its
\* invoice: returned, without invoice, and no return_rental working on it
Stranded(r) ==
    /\ rentals[r].status = "returned"
    /\ InvoicesOf(r) = {}
    /\ ~RentalHeld(r)

\* car c is marked unavailable, no active rental references it and no request
\* is working on it
CarStuck(c) ==
    /\ ~cars[c].available
    /\ ActiveRentalsOf(c) = {}
    /\ ~CarHeld(c)

\* return_rental writes the Rental, then the Car, then the Invoice; a stranded
\* Rental and a stuck Car stay so over every step, and return_rental on a
\* stranded Rental answers 400 and writes nothing
ReturnNeverResumed ==
    /\ \A p \in Procs :
          /\ (pc[p] = "r_update" /\ pc'[p] = "r_car_update") =>
                /\ rentals'[loc[p].rental.id].status = "returned"
                /\ cars' = cars /\ invoices' = invoices
          /\ (pc[p] = "r_car_update" /\ pc'[p] = "r_refetch") =>
                /\ cars'[loc[p].car.id].available
                /\ rentals' = rentals /\ invoices' = invoices
          /\ (pc[p] = "r_invoice" /\ pc'[p] = "r_fetch") =>
                /\ Len(invoices') = Len(invoices) + 1
                /\ rentals' = rentals /\ cars' = cars
    /\ \A r \in RentalIds : Stranded(r) => Stranded(r)'
    /\ \A c \in CarIds : CarStuck(c) => CarStuck(c)'
    /\ \A p \in Procs, r \in RentalIdInputs, t \in TaxInputs :
          (/\ pc[p] = "idle"
           /\ r \in RentalIds
           /\ Stranded(r)
           /\ ReturnFindRental(p, r, t))
          => (/\ resp' = HttpError(400, "Rental already returned")
              /\ pc'[p] = "idle"
              /\ UNCHANGED <<cars, rentals, invoices>>)

\* C18 (as stated): return_rental writes in the order Rental, Car, Invoice; a
\* Rental whose return_rental stopped after the Rental update stays returned
\* without Invoice, every later return_rental on it answers 400, and a stop
\* before the Car update leaves the Car stuck at available=false with no
\* active Rental, for good.
C18_StoppedReturnLeavesCarStuck ==
    [][/\ ReturnNeverResumed
       /\ \A p \in Procs, c \in CarIds, r \in RentalIds :
             (/\ pc[p] = "r_car_update" /\ c = loc[p].car.id /\ r = loc[p].rental.id
              /\ ReturnStop(p))
             => (Stranded(r) /\ CarStuck(c))']_vars

\* C18 (amended): as above, the Car being left stuck when, at the stop, it
\* was marked available=false and no other active Rental references it.
C18_StoppedReturnNeverCompleted ==
    [][/\ ReturnNeverResumed
       /\ \A p \in Procs, c \in CarIds, r \in RentalIds :
             (/\ pc[p] = "r_car_update" /\ c = loc[p].car.id /\ r = loc[p].rental.id
              /\ ReturnStop(p))
             => /\ Stranded(r)'
                /\ (~cars[c].available /\ ActiveRentalsOf(c) = {}) => CarStuck(c)']_vars

\* a return_rental stopped before the car update and a later return_rental
\* on its rental has just been refused: the rental is returned without
\* invoice and its car is unavailable with no active rental
C18_Witness ==
    /\ Quiescent
    /\ resp = HttpError(400, "Rental already returned")
    /\ invoices = <<>>
    /\ \E r \in RentalIds : Stranded(r) /\ CarStuck(rentals[r].car_id)

====
